---- MODULE Spec2Model ----
(***************************************************************************)
(* Maritime Document Extractor (sherafyk/SFK2, backend).                   *)
(*                                                                         *)
(*   models.py  the pydantic Document model (FieldDocument and its parts)  *)
(*   vision.py  get_openai_client and extract_document_data (repair loop)  *)
(*   main.py    upload_document, get_result, health_check                  *)
(*                                                                         *)
(* Program strings are sequences of tokens: "" is << >>, an f-string is a  *)
(* concatenation (\o), str.startswith is a prefix test.  A JSON text is a  *)
(* token that json_loads maps to the value it denotes.                     *)
(***************************************************************************)
EXTENDS Integers, Sequences, FiniteSets, TLC

(***************************************************************************)
(* Bounds of the model.                                                    *)
(***************************************************************************)
\* number of calls (uploads or direct engine calls) one behaviour makes
MaxRequests == 2
\* direct engine calls pass max_retries in 0..MaxRetriesBound
MaxRetriesBound == 3

\* def extract_document_data(image_path, max_retries: int = 3)
DefaultMaxRetries == 3

Reqs == 1..MaxRequests

(***************************************************************************)
(* JSON values (what json.loads / pydantic see).                           *)
(***************************************************************************)
Str(s) == [t |-> "str", s |-> s]
Num(n) == [t |-> "num", n |-> n]
Null == [t |-> "null"]
Obj(f) == [t |-> "obj", f |-> f]
Arr(e) == [t |-> "arr", e |-> e]
\* a datetime object: the value pydantic builds from an ISO-8601 string
Datetime(s) == [t |-> "datetime", s |-> s]

\* strings that datetime parsing accepts
IsoStrings == {"2024-05-01T08:00:00", "2024-05-02T17:30:00"}

(***************************************************************************)
(* models.py: field tables.  A field type is one of                        *)
(*   "str" "float" "opt_str" "opt_float" "opt_datetime".                   *)
(***************************************************************************)
TankConditionFields ==
    [tank_id |-> "str", product |-> "str", api |-> "float", ullage_ft |-> "float",
     ullage_in |-> "float", temperature_f |-> "float", water_bbls |-> "float",
     gross_bbls |-> "float", net_bbls |-> "opt_float", metric_tons |-> "opt_float"]
TankConditionRequired ==
    {"tank_id", "product", "api", "ullage_ft", "ullage_in", "temperature_f", "gross_bbls"}

ProductTotalsFields ==
    [gross_bbls |-> "float", net_bbls |-> "opt_float", metric_tons |-> "opt_float"]
ProductTotalsRequired == {"gross_bbls"}

TimestampsFields ==
    [arrival |-> "opt_datetime", all_fast |-> "opt_datetime", boom_on |-> "opt_datetime",
     hose_on |-> "opt_datetime", comm_ld |-> "opt_datetime", comp_ld |-> "opt_datetime",
     hose_off |-> "opt_datetime", boom_off |-> "opt_datetime", depart |-> "opt_datetime"]
TimestampsRequired == {}

DraftsFields ==
    [fwd_port |-> "float", fwd_stbd |-> "float", aft_port |-> "float", aft_stbd |-> "float"]
DraftsRequired == {"fwd_port", "fwd_stbd", "aft_port", "aft_stbd"}

BargeInfoFields == [name |-> "str", voyage_number |-> "opt_str", otb_job_number |-> "opt_str"]
BargeInfoRequired == {"name"}

PortInfoFields == [vessel_name |-> "str", port_city |-> "opt_str"]
PortInfoRequired == {"vessel_name"}

ArrivalDepartureDeclared ==
    {"water_specific_gravity", "drafts_ft", "timestamps", "tanks", "summary_by_product"}
ArrivalDepartureRequired == {"tanks"}

FieldDocumentDeclared ==
    {"barge", "port", "arrival", "departure", "products_loaded_discharged"}
FieldDocumentRequired == {"barge", "port", "arrival", "departure"}

\* the one field default that is not None: water_bbls: float = 0.0
FieldDefault(k) == IF k = "water_bbls" THEN Num(0) ELSE Null

(***************************************************************************)
(* pydantic validation of one value against a field type.                  *)
(***************************************************************************)
ScalarOk(v, ty) ==
    CASE ty = "str" -> v.t = "str"
      [] ty = "float" -> v.t = "num"
      [] ty = "opt_str" -> v.t \in {"null", "str"}
      [] ty = "opt_float" -> v.t \in {"null", "num"}
      [] ty = "opt_datetime" -> v.t = "null" \/ (v.t = "str" /\ v.s \in IsoStrings)

\* the validated value: an ISO string of a datetime field becomes a datetime
ScalarValue(v, ty) ==
    IF ty = "opt_datetime" /\ v.t = "str" THEN Datetime(v.s) ELSE v

\* a variant with the pydantic default, extra='ignore'
ExtraIgnored(v, declared) == TRUE

\* ConfigDict(extra='forbid'): no key outside the declared ones
ExtraForbidden(v, declared) == DOMAIN v.f \subseteq declared

\* a model all of whose fields are scalars
ValidFlat(v, fields, required) ==
    /\ v.t = "obj"
    /\ ExtraForbidden(v, DOMAIN fields)
    /\ required \subseteq DOMAIN v.f
    /\ \A k \in DOMAIN v.f \cap DOMAIN fields : ScalarOk(v.f[k], fields[k])

BuildFlat(v, fields) ==
    Obj([k \in DOMAIN fields |->
            IF k \in DOMAIN v.f THEN ScalarValue(v.f[k], fields[k]) ELSE FieldDefault(k)])

\* an Optional[...] field: absent, null or valid
OptionalOk(v, k, Valid(_)) ==
    k \in DOMAIN v.f => (v.f[k].t = "null" \/ Valid(v.f[k]))
OptionalValue(v, k, Build(_)) ==
    IF k \in DOMAIN v.f /\ v.f[k].t # "null" THEN Build(v.f[k]) ELSE Null

ValidTankCondition(v) == ValidFlat(v, TankConditionFields, TankConditionRequired)
ValidProductTotals(v) == ValidFlat(v, ProductTotalsFields, ProductTotalsRequired)
ValidTimestamps(v) == ValidFlat(v, TimestampsFields, TimestampsRequired)
ValidDrafts(v) == ValidFlat(v, DraftsFields, DraftsRequired)
ValidBargeInfo(v) == ValidFlat(v, BargeInfoFields, BargeInfoRequired)
ValidPortInfo(v) == ValidFlat(v, PortInfoFields, PortInfoRequired)

BuildTankCondition(v) == BuildFlat(v, TankConditionFields)
BuildProductTotals(v) == BuildFlat(v, ProductTotalsFields)
BuildTimestamps(v) == BuildFlat(v, TimestampsFields)
BuildDrafts(v) == BuildFlat(v, DraftsFields)
BuildBargeInfo(v) == BuildFlat(v, BargeInfoFields)
BuildPortInfo(v) == BuildFlat(v, PortInfoFields)

\* Dict[str, ProductTotals]
ValidTotalsDict(v) ==
    v.t = "obj" /\ \A k \in DOMAIN v.f : ValidProductTotals(v.f[k])
BuildTotalsDict(v) == Obj([k \in DOMAIN v.f |-> BuildProductTotals(v.f[k])])

\* tanks: List[TankCondition]
ValidTanks(v) ==
    v.t = "arr" /\ \A i \in 1..Len(v.e) : ValidTankCondition(v.e[i])
BuildTanks(v) == Arr([i \in 1..Len(v.e) |-> BuildTankCondition(v.e[i])])

ValidArrivalDeparture(v) ==
    /\ v.t = "obj"
    /\ ExtraForbidden(v, ArrivalDepartureDeclared)
    /\ ArrivalDepartureRequired \subseteq DOMAIN v.f
    /\ ("water_specific_gravity" \in DOMAIN v.f
            => ScalarOk(v.f["water_specific_gravity"], "opt_float"))
    /\ OptionalOk(v, "drafts_ft", ValidDrafts)
    /\ OptionalOk(v, "timestamps", ValidTimestamps)
    /\ ValidTanks(v.f["tanks"])
    /\ OptionalOk(v, "summary_by_product", ValidTotalsDict)

BuildArrivalDeparture(v) ==
    Obj([water_specific_gravity |->
            IF "water_specific_gravity" \in DOMAIN v.f
            THEN v.f["water_specific_gravity"] ELSE Null,
         drafts_ft |-> OptionalValue(v, "drafts_ft", BuildDrafts),
         timestamps |-> OptionalValue(v, "timestamps", BuildTimestamps),
         tanks |-> BuildTanks(v.f["tanks"]),
         summary_by_product |-> OptionalValue(v, "summary_by_product", BuildTotalsDict)])

ValidFieldDocument(v) ==
    /\ v.t = "obj"
    /\ ExtraForbidden(v, FieldDocumentDeclared)
    /\ FieldDocumentRequired \subseteq DOMAIN v.f
    /\ ValidBargeInfo(v.f["barge"])
    /\ ValidPortInfo(v.f["port"])
    /\ ValidArrivalDeparture(v.f["arrival"])
    /\ ValidArrivalDeparture(v.f["departure"])
    /\ OptionalOk(v, "products_loaded_discharged", ValidTotalsDict)

\* the FieldDocument instance; its model_dump() is the same tree as dicts
BuildFieldDocument(v) ==
    Obj([barge |-> BuildBargeInfo(v.f["barge"]),
         port |-> BuildPortInfo(v.f["port"]),
         arrival |-> BuildArrivalDeparture(v.f["arrival"]),
         departure |-> BuildArrivalDeparture(v.f["departure"]),
         products_loaded_discharged |->
            OptionalValue(v, "products_loaded_discharged", BuildTotalsDict)])

\* json.dumps(default encoder): a datetime inside raises TypeError
RECURSIVE Serializable(_)
Serializable(v) ==
    CASE v.t = "obj" -> \A k \in DOMAIN v.f : Serializable(v.f[k])
      [] v.t = "arr" -> \A i \in 1..Len(v.e) : Serializable(v.e[i])
      [] v.t = "datetime" -> FALSE
      [] OTHER -> TRUE

(***************************************************************************)
(* Payload texts the provider stub can return, and the JSON each denotes.  *)
(***************************************************************************)
TankRow ==
    Obj([tank_id |-> Str("1P"), product |-> Str("ULSD"), api |-> Num(35),
         ullage_ft |-> Num(3), ullage_in |-> Num(6), temperature_f |-> Num(60),
         gross_bbls |-> Num(1000)])
PlainRecord == Obj([tanks |-> Arr(<<TankRow>>)])
TimedRecord ==
    Obj([tanks |-> Arr(<<TankRow>>),
         timestamps |-> Obj([arrival |-> Str("2024-05-01T08:00:00")])])

PayloadJson ==
    [good |->
        Obj([barge |-> Obj([name |-> Str("B1")]), port |-> Obj([vessel_name |-> Str("V1")]),
             arrival |-> PlainRecord, departure |-> PlainRecord]),
     good_ts |->
        Obj([barge |-> Obj([name |-> Str("B1")]), port |-> Obj([vessel_name |-> Str("V1")]),
             arrival |-> TimedRecord, departure |-> PlainRecord]),
     bad_missing |->
        Obj([barge |-> Obj([voyage_number |-> Str("7")]),
             port |-> Obj([vessel_name |-> Str("V1")]),
             arrival |-> PlainRecord, departure |-> PlainRecord]),
     bad_extra |->
        Obj([barge |-> Obj([name |-> Str("B1")]), port |-> Obj([vessel_name |-> Str("V1")]),
             arrival |-> PlainRecord, departure |-> PlainRecord, notes |-> Str("n/a")])]

\* the payload texts of the engine's provider stub
Payloads == {"good", "good_ts", "bad_missing", "bad_extra"}

IsJsonText(text) == text \in DOMAIN PayloadJson
json_loads(text) == PayloadJson[text]

(***************************************************************************)
(* Exceptions: a type and the text str(e) gives.                           *)
(***************************************************************************)
NoExc == [type |-> "none", msg |-> << >>]
str(e) == e.msg

\* pydantic's message describes the violations of this very input
ValidationError(text) ==
    [type |-> "ValidationError", msg |-> <<"validation error for FieldDocument", text>>]
ProviderError == [type |-> "APIError", msg |-> <<"provider error: rate limit">>]
MissingCredential ==
    [type |-> "RuntimeError", msg |-> <<"OPENAI_API_KEY environment variable is not set">>]
SchemaLoadError ==
    [type |-> "FileNotFoundError", msg |-> <<"No such file: schema/field_doc_schema.json">>]
NotSerializable ==
    [type |-> "TypeError", msg |-> <<"Object of type datetime is not JSON serializable">>]
NoneHasNoDump ==
    [type |-> "AttributeError", msg |-> <<"'NoneType' object has no attribute 'model_dump'">>]

\* a variant that fails to parse the ISO strings of the timestamps
model_validate_json_no_datetime(text) ==
    IF IsJsonText(text) /\ ValidFieldDocument(json_loads(text))
          /\ Serializable(BuildFieldDocument(json_loads(text)))
    THEN [ok |-> TRUE, doc |-> BuildFieldDocument(json_loads(text)), exc |-> NoExc]
    ELSE [ok |-> FALSE, doc |-> Null, exc |-> ValidationError(text)]

\* FieldDocument.model_validate_json(text)
model_validate_json(text) ==
    IF IsJsonText(text) /\ ValidFieldDocument(json_loads(text))
    THEN [ok |-> TRUE, doc |-> BuildFieldDocument(json_loads(text)), exc |-> NoExc]
    ELSE [ok |-> FALSE, doc |-> Null, exc |-> ValidationError(text)]

(***************************************************************************)
(* vision.py: the pieces of extract_document_data.                         *)
(***************************************************************************)
\* Python's None, as the value of `extracted` before any payload arrived
NonePy == "<None>"
\* truthiness of `extracted` in `extracted if extracted else ""`
Truthy(x) == x \notin {NonePy, ""}

\* base64.b64encode(bytes).decode()
b64encode(bytes) == "b64:" \o bytes

system_prompt == <<"You are a maritime cargo document parser. Extract ALL values exactly per schema">>
user_text == <<"Extract all data from this document, incl. vessel name, tanks, timestamps.">>
fix_prefix == <<"Please fix error and capture all data: ">>

\* a variant that keeps the encoded image of the first extraction for all
InitialMessagesFirstImage(image_b64) ==
    << [role |-> "system", content |-> system_prompt],
       [role |-> "user",
        content |-> user_text \o <<"data:image/jpeg;base64,", "b64:image-1">>] >>

\* messages = [system turn, user turn with text and image]
InitialMessages(image_b64) ==
    << [role |-> "system", content |-> system_prompt],
       [role |-> "user", content |-> user_text \o <<"data:image/jpeg;base64,", image_b64>>] >>

\* {"role": "assistant", "content": extracted if extracted else ""}
AssistantTurn(x) ==
    [role |-> "assistant", content |-> IF Truthy(x) THEN <<x>> ELSE << >>]

\* a variant that leaves the error text out of the correction
CorrectionTurnNoError(e) == [role |-> "user", content |-> fix_prefix]

\* {"role": "user", "content": f"Please fix error and capture all data: {e}"}
CorrectionTurn(e) == [role |-> "user", content |-> fix_prefix \o str(e)]

\* a variant that appends the two turns in the other order
AppendRepairSwapped(msgs, x, e) == Append(Append(msgs, CorrectionTurn(e)), AssistantTurn(x))

\* the two messages.append calls of the handler
AppendRepair(msgs, x, e) == Append(Append(msgs, AssistantTurn(x)), CorrectionTurn(e))

\* a variant without the credential check
KeyMissingNever(k) == FALSE

\* `if not api_key`
KeyMissing(k) == ~k

\* `for attempt in range(max_retries)`: the loop body runs for this attempt
InRange(a, m) == a < m

\* a variant off by one: the last attempt is treated as one more retry
RetriesRemainOffByOne(a, m) == a < m

\* `if attempt < max_retries - 1`
RetriesRemain(a, m) == a < m - 1

\* a variant that handles validation errors only (`except ValidationError`)
CaughtValidationOnly(e) == e.type = "ValidationError"

\* `except Exception as e`: every exception of the try body is caught
Caught(e) == TRUE

\* a variant that raises a fresh error instead of the one being handled
ReraiseGeneric(e) == [type |-> "RuntimeError", msg |-> <<"extraction failed">>]

\* bare `raise` in the handler: the exception being handled
Reraise(e) == e

(***************************************************************************)
(* main.py: the pieces of upload_document and get_result.                  *)
(***************************************************************************)
\* Python's None as the declared content type of an upload without one
NoContentType == <<"<None>">>

ContentTypes ==
    { <<"image", "/", "jpeg">>, <<"image", "/", "png">>, <<"text", "/", "plain">>,
      <<"image">> }

startswith(s, prefix) ==
    Len(s) >= Len(prefix) /\ SubSeq(s, 1, Len(prefix)) = prefix

\* a variant that tests the prefix "image" without the slash
IsImageTypeLoose(ct) == startswith(ct, <<"image">>)

\* file.content_type.startswith("image/")
IsImageType(ct) == startswith(ct, <<"image", "/">>)

\* json.dumps of a serializable value: the JSON text, as the tree of its
\* syntax (object, array, number, string, null); a datetime has no encoding
RECURSIVE JsonEncode(_)
JsonEncode(v) ==
    CASE v.t = "obj" -> [j |-> "object", members |-> [k \in DOMAIN v.f |-> JsonEncode(v.f[k])]]
      [] v.t = "arr" -> [j |-> "array", items |-> [i \in 1..Len(v.e) |-> JsonEncode(v.e[i])]]
      [] v.t = "num" -> [j |-> "number", n |-> v.n]
      [] v.t = "str" -> [j |-> "string", s |-> v.s]
      [] v.t = "null" -> [j |-> "null"]

\* json.loads of such a text: dict, list, float, str, None
RECURSIVE JsonDecode(_)
JsonDecode(x) ==
    CASE x.j = "object" -> Obj([k \in DOMAIN x.members |-> JsonDecode(x.members[k])])
      [] x.j = "array" -> Arr([i \in 1..Len(x.items) |-> JsonDecode(x.items[i])])
      [] x.j = "number" -> Num(x.n)
      [] x.j = "string" -> Str(x.s)
      [] x.j = "null" -> Null

json_dumps(v) == [json |-> JsonEncode(v)]
json_loads_file(text) == JsonDecode(text.json)

\* the bytes of the uploaded file of request r
ImageBytes(r) == "image-" \o ToString(r)

(***************************************************************************)
(* State.                                                                  *)
(***************************************************************************)
VARIABLES
    api_key,       \* environment: OPENAI_API_KEY is set and non-empty
    schema_file,   \* the schema resource exists and parses
    client,        \* vision.py global _client: "None" or "OpenAI"
    next_id,       \* number of identifiers uuid4 has handed out
    image_files,   \* UPLOAD_DIR/<id><ext>: id -> bytes
    result_files,  \* UPLOAD_DIR/<id>_result.json: id -> text
    pc,            \* per call: where it stands
    call,          \* per call: kind, content type, max_retries, image bytes
    file_id,       \* per upload: the identifier assigned (0: none)
    messages,      \* per extraction: the local list `messages`
    extracted,     \* per extraction: the local `extracted`
    attempt,       \* per extraction: the loop variable
    exc,           \* per extraction: the exception `e` being handled
    ret,           \* per extraction: how extract_document_data ended
    sent,          \* history: the transcript of every provider request
    replies,       \* history: what the provider answered to each request
    errors,        \* history: the exception each failed attempt produced
    response,      \* per call: what the caller got back
    health,        \* last answer of GET /health
    got,           \* last answer of GET /api/result/{file_id}
    client_inits,  \* history: how many times openai.OpenAI(...) was constructed
    schema_reads,  \* history: how many times the schema resource was read
    sample,        \* validation bench: the payload handed to the Document model
    verdict        \* validation bench: what validation made of it

vars == <<api_key, schema_file, client, next_id, image_files, result_files, pc, call,
          file_id, messages, extracted, attempt, exc, ret, sent, replies, errors,
          response, health, got, client_inits, schema_reads, sample, verdict>>

env == <<api_key, schema_file>>
files == <<next_id, image_files, result_files>>
locals == <<messages, extracted, attempt, exc>>
history == <<sent, replies, errors>>
probes == <<health, got>>
counters == <<client_inits, schema_reads>>
bench == <<sample, verdict>>

NoCall == [kind |-> "none", content_type |-> << >>, max_retries |-> 0, image |-> ""]
Pending == [kind |-> "pending", doc |-> Null, exc |-> NoExc]
Returned(doc) == [kind |-> "Document", doc |-> doc, exc |-> NoExc]
ReturnedNone == [kind |-> "None", doc |-> Null, exc |-> NoExc]
Raised(e) == [kind |-> "raise", doc |-> Null, exc |-> e]

NoResponse == [status |-> "none", id |-> 0, data |-> Null, error |-> << >>]
NoAnswer == [status |-> "none", body |-> Null]
\* the validation bench is idle while the service runs
NoSample == [arrival_tanks |-> 0, departure_tanks |-> 0, extra_at |-> "none", json |-> Null]
NoVerdict == [ok |-> FALSE, doc |-> Null, seen |-> FALSE]

\* what the provider can answer to one request
ProviderReplies ==
    {[kind |-> "content", text |-> p] : p \in Payloads}
        \cup {[kind |-> "error", text |-> ""]}

\* the service after import: nothing uploaded, no client yet
InitService ==
    /\ client = "None"
    /\ next_id = 0
    /\ image_files = << >>
    /\ result_files = << >>
    /\ pc = [r \in Reqs |-> "idle"]
    /\ call = [r \in Reqs |-> NoCall]
    /\ file_id = [r \in Reqs |-> 0]
    /\ messages = [r \in Reqs |-> << >>]
    /\ extracted = [r \in Reqs |-> NonePy]
    /\ attempt = [r \in Reqs |-> 0]
    /\ exc = [r \in Reqs |-> NoExc]
    /\ ret = [r \in Reqs |-> Pending]
    /\ sent = [r \in Reqs |-> << >>]
    /\ replies = [r \in Reqs |-> << >>]
    /\ errors = [r \in Reqs |-> << >>]
    /\ response = [r \in Reqs |-> NoResponse]
    /\ health = "none"
    /\ got = NoAnswer
    /\ client_inits = 0
    /\ schema_reads = 0

Init ==
    /\ api_key \in BOOLEAN
    /\ schema_file \in BOOLEAN
    /\ InitService
    /\ sample = NoSample
    /\ verdict = NoVerdict

(***************************************************************************)
(* vision.py: extract_document_data, one action per step.                  *)
(***************************************************************************)
\* the function ends (return or raise): its frame stays visible until the
\* caller takes the outcome
EndWith(r, outcome) ==
    /\ ret' = [ret EXCEPT ![r] = outcome]
    /\ pc' = [pc EXCEPT ![r] = "engine_done"]

\* an exception leaves the try body: into the handler when it is caught
Throw(r, e) ==
    /\ errors' = [errors EXCEPT ![r] = Append(@, e)]
    /\ IF Caught(e)
       THEN /\ exc' = [exc EXCEPT ![r] = e]
            /\ pc' = [pc EXCEPT ![r] = "except"]
            /\ UNCHANGED ret
       ELSE /\ EndWith(r, Raised(e))
            /\ UNCHANGED exc

\* lines 23-44: read the schema and the image, build the transcript
LoadAndBuild(r) ==
    /\ pc[r] = "extract"
    /\ IF schema_file
       THEN /\ schema_reads' = schema_reads + 1
            /\ messages' = [messages EXCEPT ![r] = InitialMessages(b64encode(call[r].image))]
            /\ extracted' = [extracted EXCEPT ![r] = NonePy]
            /\ pc' = [pc EXCEPT ![r] = "get_client"]
            /\ UNCHANGED ret
       ELSE /\ EndWith(r, Raised(SchemaLoadError))
            /\ UNCHANGED <<messages, extracted, schema_reads>>
    /\ UNCHANGED <<env, bench, client_inits, client, files, call, file_id, attempt, exc, history, response, probes>>

\* get_openai_client, line 14: `if _client is None`
ClientCheck(r) ==
    /\ pc[r] = "get_client"
    /\ pc' = [pc EXCEPT ![r] = IF client = "None" THEN "init_client" ELSE "loop"]
    /\ UNCHANGED <<env, bench, counters, client, files, call, file_id, locals, ret, history, response, probes>>

\* get_openai_client, lines 15-19
ClientInit(r) ==
    /\ pc[r] = "init_client"
    /\ IF KeyMissing(api_key)
       THEN /\ EndWith(r, Raised(MissingCredential))
            /\ UNCHANGED <<client, client_inits>>
       ELSE /\ client' = "OpenAI"
            /\ client_inits' = client_inits + 1
            /\ pc' = [pc EXCEPT ![r] = "loop"]
            /\ UNCHANGED ret
    /\ UNCHANGED <<env, bench, schema_reads, files, call, file_id, locals, history, response, probes>>

\* line 47: the loop head; falling off the loop ends the function with None
LoopHead(r) ==
    /\ pc[r] = "loop"
    /\ IF InRange(attempt[r], call[r].max_retries)
       THEN /\ pc' = [pc EXCEPT ![r] = "create"]
            /\ UNCHANGED ret
       ELSE EndWith(r, ReturnedNone)
    /\ UNCHANGED <<env, bench, counters, client, files, call, file_id, locals, history, response, probes>>

\* lines 49-58: one request to the provider, carrying `messages`
Create(r, reply) ==
    /\ pc[r] = "create"
    /\ sent' = [sent EXCEPT ![r] = Append(@, messages[r])]
    /\ replies' = [replies EXCEPT ![r] = Append(@, reply)]
    /\ IF reply.kind = "content"
       THEN /\ extracted' = [extracted EXCEPT ![r] = reply.text]
            /\ pc' = [pc EXCEPT ![r] = "validate"]
            /\ UNCHANGED <<exc, ret, errors>>
       ELSE /\ Throw(r, ProviderError)
            /\ UNCHANGED extracted
    /\ UNCHANGED <<env, bench, counters, client, files, call, file_id, messages, attempt, response, probes>>

\* line 59: return FieldDocument.model_validate_json(extracted)
Validate(r) ==
    /\ pc[r] = "validate"
    /\ LET v == model_validate_json(extracted[r])
       IN  IF v.ok
           THEN /\ EndWith(r, Returned(v.doc))
                /\ UNCHANGED <<exc, errors>>
           ELSE Throw(r, v.exc)
    /\ UNCHANGED <<env, bench, counters, client, files, call, file_id, messages, extracted, attempt,
                   sent, replies, response, probes>>

\* lines 60-65: the handler
Except(r) ==
    /\ pc[r] = "except"
    /\ IF RetriesRemain(attempt[r], call[r].max_retries)
       THEN /\ messages' = [messages EXCEPT ![r] = AppendRepair(@, extracted[r], exc[r])]
            /\ attempt' = [attempt EXCEPT ![r] = @ + 1]
            /\ pc' = [pc EXCEPT ![r] = "loop"]
            /\ UNCHANGED ret
       ELSE /\ EndWith(r, Raised(Reraise(exc[r])))
            /\ UNCHANGED <<messages, attempt>>
    /\ UNCHANGED <<env, bench, counters, client, files, call, file_id, extracted, exc, history, response, probes>>

(***************************************************************************)
(* main.py: the endpoints.                                                 *)
(***************************************************************************)
\* the frame of extract_document_data is gone once its caller has the outcome:
\* its arguments and its locals
DropFrame(r) ==
    /\ call' = [call EXCEPT ![r] = [@ EXCEPT !.max_retries = 0, !.image = ""]]
    /\ messages' = [messages EXCEPT ![r] = << >>]
    /\ extracted' = [extracted EXCEPT ![r] = NonePy]
    /\ attempt' = [attempt EXCEPT ![r] = 0]
    /\ exc' = [exc EXCEPT ![r] = NoExc]
    /\ sent' = [sent EXCEPT ![r] = << >>]
    /\ replies' = [replies EXCEPT ![r] = << >>]
    /\ errors' = [errors EXCEPT ![r] = << >>]

\* health and got hold the answers to the probes made since the last call
NewCall == health' = "none" /\ got' = NoAnswer

\* lines 26-33 and the call of line 36: the media type check, the identifier,
\* the image file, then extract_document_data(path) with the default bound
upload_document(r, ct) ==
    /\ pc[r] = "idle"
    /\ IF ct = NoContentType
       THEN \* None has no startswith: the handler dies, a server error
            /\ call' = [call EXCEPT ![r] = [NoCall EXCEPT !.kind = "upload", !.content_type = ct]]
            /\ response' = [response EXCEPT ![r] = [NoResponse EXCEPT !.status = "http500"]]
            /\ pc' = [pc EXCEPT ![r] = "done"]
            /\ UNCHANGED <<files, file_id>>
       ELSE IF ~IsImageType(ct)
       THEN /\ call' = [call EXCEPT ![r] = [NoCall EXCEPT !.kind = "upload", !.content_type = ct]]
            /\ response' = [response EXCEPT ![r] =
                    [NoResponse EXCEPT !.status = "http400",
                                       !.error = <<"Only image files are accepted">>]]
            /\ pc' = [pc EXCEPT ![r] = "done"]
            /\ UNCHANGED <<files, file_id>>
       ELSE /\ next_id' = next_id + 1
            /\ file_id' = [file_id EXCEPT ![r] = next_id + 1]
            /\ image_files' = (next_id + 1 :> ImageBytes(r)) @@ image_files
            /\ call' = [call EXCEPT ![r] =
                    [kind |-> "upload", content_type |-> ct,
                     max_retries |-> DefaultMaxRetries, image |-> ImageBytes(r)]]
            /\ pc' = [pc EXCEPT ![r] = "extract"]
            /\ UNCHANGED <<result_files, response>>
    /\ NewCall
    /\ UNCHANGED <<env, bench, counters, client, locals, ret, history>>

\* extract_document_data(path, max_retries = m), called on its own
direct_call(r, m) ==
    /\ pc[r] = "idle"
    /\ call' = [call EXCEPT ![r] =
            [kind |-> "direct", content_type |-> << >>, max_retries |-> m,
             image |-> ImageBytes(r)]]
    /\ pc' = [pc EXCEPT ![r] = "extract"]
    /\ NewCall
    /\ UNCHANGED <<env, bench, counters, client, files, file_id, locals, ret, history, response>>

\* a variant that stores the record without the Document
ResultRecordNoData(id, r, dump) ==
    Obj([id |-> Str(ToString(id)), filename |-> Str(ImageBytes(r)),
         processed_at |-> Str("utcnow"), data |-> Null])

\* the record upload_document dumps into the result file
ResultRecord(id, r, dump) ==
    Obj([id |-> Str(ToString(id)), filename |-> Str(ImageBytes(r)),
         processed_at |-> Str("utcnow"), data |-> dump])

\* what write_text puts into the file: the dumped record (nothing of it
\* when the dump raised)
FileText(record) ==
    IF Serializable(record) THEN json_dumps(record) ELSE [json |-> JsonEncode(Null)]

\* a variant that opens and writes the file before the dump has succeeded
FileWrittenEarly(outcome, record) == outcome.kind = "Document"

\* lines 38-48: write_text runs only when the engine returned a Document and
\* json.dumps of the record returned
FileWritten(outcome, record) == outcome.kind = "Document" /\ Serializable(record)

\* a variant that handles validation errors only (`except ValidationError`)
BoundaryCatchesValidationOnly(e) == e.type = "ValidationError"

\* line 50, `except Exception as e`: every exception of the try body is caught
BoundaryCatches(e) == TRUE

\* line 37: {"id": file_id, "status": "completed", "data": doc.model_dump()}
CompletedResponse(id, dump) ==
    [status |-> "completed", id |-> id, data |-> dump, error |-> << >>]

\* line 51: {"id": file_id, "status": "error", "error": str(e)}; an exception
\* the handler does not catch leaves upload_document as a server error
ErrorResponse(id, e) ==
    IF BoundaryCatches(e)
    THEN [status |-> "error", id |-> id, data |-> Null, error |-> str(e)]
    ELSE [status |-> "http500", id |-> 0, data |-> Null, error |-> << >>]

\* the exception of the try body of lines 36-49, if any
TryBodyError(outcome, record) ==
    CASE outcome.kind = "raise" -> outcome.exc
      [] outcome.kind = "None" -> NoneHasNoDump
      [] outcome.kind = "Document" /\ ~Serializable(record) -> NotSerializable
      [] OTHER -> NoExc

\* lines 37-51: the rest of upload_document once the engine has ended
upload_finish(r) ==
    /\ pc[r] = "engine_done"
    /\ call[r].kind = "upload"
    /\ LET id == file_id[r]
           record == ResultRecord(id, r, ret[r].doc)
           e == TryBodyError(ret[r], record)
       IN  /\ result_files' =
                IF FileWritten(ret[r], record)
                THEN (id :> FileText(record)) @@ result_files
                ELSE result_files
           /\ response' = [response EXCEPT ![r] =
                IF e = NoExc THEN CompletedResponse(id, ret[r].doc) ELSE ErrorResponse(id, e)]
    /\ DropFrame(r)
    /\ pc' = [pc EXCEPT ![r] = "done"]
    /\ UNCHANGED <<env, bench, counters, client, next_id, image_files, file_id, ret, probes>>

\* the direct caller takes the outcome of extract_document_data
direct_finish(r) ==
    /\ pc[r] = "engine_done"
    /\ call[r].kind = "direct"
    /\ response' = [response EXCEPT ![r] =
            [status |-> ret[r].kind, id |-> 0, data |-> ret[r].doc, error |-> str(ret[r].exc)]]
    /\ DropFrame(r)
    /\ pc' = [pc EXCEPT ![r] = "done"]
    /\ UNCHANGED <<env, bench, counters, client, files, file_id, ret, probes>>

\* a variant that serves some stored result when the identifier has none
get_result_fallback(id) ==
    IF DOMAIN result_files # {}
    THEN [status |-> "http200",
          body |-> json_loads_file(result_files[IF id \in DOMAIN result_files THEN id
                                                ELSE CHOOSE i \in DOMAIN result_files : TRUE])]
    ELSE [status |-> "http404", body |-> Null]

\* GET /api/result/{file_id}
get_result(id) ==
    IF id \in DOMAIN result_files
    THEN [status |-> "http200", body |-> json_loads_file(result_files[id])]
    ELSE [status |-> "http404", body |-> Null]

GetResult(id) ==
    /\ got' = get_result(id)
    /\ UNCHANGED <<env, bench, counters, client, files, pc, call, file_id, locals, ret, history, response, health>>

\* GET /health
health_check ==
    /\ health' = "healthy"
    /\ UNCHANGED <<env, bench, counters, client, files, pc, call, file_id, locals, ret, history, response, got>>

(***************************************************************************)
(* One client: calls are issued one after the other, and the probes are    *)
(* made between calls.                                                     *)
(***************************************************************************)
Quiescent == \A q \in Reqs : pc[q] \in {"idle", "done"}
IsNext(r) == Quiescent /\ \A q \in Reqs : q < r => pc[q] = "done"

IssueUpload == \E r \in Reqs, ct \in ContentTypes \cup {NoContentType} :
                    IsNext(r) /\ upload_document(r, ct)
IssueDirect == \E r \in Reqs, m \in 0..MaxRetriesBound : IsNext(r) /\ direct_call(r, m)
EngineStep == \E r \in Reqs :
                \/ LoadAndBuild(r)
                \/ ClientCheck(r)
                \/ ClientInit(r)
                \/ LoopHead(r)
                \/ \E reply \in ProviderReplies : Create(r, reply)
                \/ Validate(r)
                \/ Except(r)
Finish == \E r \in Reqs : upload_finish(r) \/ direct_finish(r)
Probe == Quiescent /\ (health_check \/ \E id \in 1..(MaxRequests + 1) : GetResult(id))

Next == IssueUpload \/ IssueDirect \/ EngineStep \/ Finish \/ Probe

Spec == Init /\ [][Next]_vars

(***************************************************************************)
(* Vocabulary of the properties.                                           *)
(***************************************************************************)
Last(q) == q[Len(q)]
IsPrefix(p, q) == Len(p) <= Len(q) /\ SubSeq(q, 1, Len(p)) = p

\* the extraction of call r has a live frame (arguments, locals, history)
Live(r) == pc[r] \notin {"idle", "done"}
Ended(r) == pc[r] = "engine_done"

\* a provider reply that is a schema-valid payload / a non-conforming payload
Conforming(reply) ==
    reply.kind = "content" /\ IsJsonText(reply.text) /\ ValidFieldDocument(json_loads(reply.text))
NonConforming(reply) == reply.kind = "content" /\ ~Conforming(reply)

\* the transcript shape: system, user with image, then k (assistant, user correction)
HasShape(t, k) ==
    /\ Len(t) = 2 + 2 * k
    /\ t[1].role = "system"
    /\ t[2].role = "user" /\ t[2].content[Len(t[2].content) - 1] = "data:image/jpeg;base64,"
    /\ \A i \in 1..k :
        /\ t[2 * i + 1].role = "assistant"
        /\ t[2 * i + 2].role = "user" /\ IsPrefix(fix_prefix, t[2 * i + 2].content)

(***************************************************************************)
(* C1. For every max_retries >= 1 an extraction never issues more than     *)
(* max_retries provider calls; when every attempt failed with a            *)
(* non-conforming payload it has issued exactly max_retries calls and ends *)
(* with an error, not a Document.                                          *)
(***************************************************************************)
C1_RetryBound ==
    \A r \in Reqs : (Live(r) /\ call[r].max_retries >= 1) =>
        /\ Len(sent[r]) <= call[r].max_retries
        /\ (Ended(r) /\ Len(replies[r]) >= 1
                /\ \A i \in 1..Len(replies[r]) : NonConforming(replies[r][i]))
            => (Len(sent[r]) = call[r].max_retries /\ ret[r].kind = "raise")

C1_Witness ==
    \E r \in Reqs :
        /\ Ended(r) /\ call[r].max_retries = DefaultMaxRetries
        /\ Len(sent[r]) = DefaultMaxRetries
        /\ \A i \in 1..Len(replies[r]) : NonConforming(replies[r][i])
        /\ ret[r].kind = "raise"

(***************************************************************************)
(* C2. If the replies 1..k-1 fail and reply k is schema-valid, the          *)
(* extraction returns the Document validated from payload k after exactly  *)
(* k provider calls, and no provider call follows the first valid reply.   *)
(***************************************************************************)
C2_FirstValidReplyWins ==
    \A r \in Reqs : \A k \in 1..Len(replies[r]) :
        Conforming(replies[r][k]) =>
            /\ k = Len(replies[r]) /\ Len(sent[r]) = k
            /\ k <= call[r].max_retries
            /\ pc[r] \in {"validate", "engine_done"}
            /\ Ended(r) => ret[r] = Returned(BuildFieldDocument(json_loads(replies[r][k].text)))

C2_Witness ==
    \E r \in Reqs :
        /\ Ended(r) /\ Len(replies[r]) = 3
        /\ ~Conforming(replies[r][1]) /\ ~Conforming(replies[r][2])
        /\ Conforming(replies[r][3])
        /\ ret[r].kind = "Document"

(***************************************************************************)
(* C3. For every attempt n >= 2 the transcript of request n ends with a    *)
(* user turn that is the fix instruction followed, verbatim, by the error  *)
(* text of attempt n-1.                                                    *)
(***************************************************************************)
C3_CorrectiveContext ==
    \A r \in Reqs : \A n \in 2..Len(sent[r]) :
        /\ Len(errors[r]) >= n - 1
        /\ Last(sent[r][n]).role = "user"
        /\ Last(sent[r][n]).content = fix_prefix \o str(errors[r][n - 1])

C3_Witness ==
    \E r \in Reqs :
        /\ Len(sent[r]) = 3
        /\ errors[r][1].type = "ValidationError" /\ errors[r][2].type = "APIError"
        /\ Last(sent[r][3]).content = fix_prefix \o str(errors[r][2])

(***************************************************************************)
(* C4. All-or-nothing: for every max_retries, 0 included, an extraction    *)
(* ends either with a schema-valid Document or with a raised error; it     *)
(* never returns normally without a Document.                              *)
(***************************************************************************)
C4_AllOrNothing ==
    \A r \in Reqs : Ended(r) => ret[r].kind \in {"Document", "raise"}

(***************************************************************************)
(* C5. When the attempt bound is reached without a valid Document, the     *)
(* error raised is the error of the final attempt, for every mix of        *)
(* validation and provider failures.                                       *)
(***************************************************************************)
C5_LastErrorSurfaced ==
    \A r \in Reqs :
        (Ended(r) /\ Len(errors[r]) >= 1 /\ Len(errors[r]) = Len(sent[r]))
            => (ret[r].kind = "raise" /\ ret[r].exc = Last(errors[r]))

C5_Witness ==
    \E r \in Reqs :
        /\ Ended(r) /\ Len(errors[r]) = 3
        /\ errors[r][1].type = "ValidationError" /\ errors[r][3].type = "APIError"
        /\ ret[r].exc = errors[r][3]

(***************************************************************************)
(* C6. Transcript shape: request n carries system, user with image, then   *)
(* exactly n-1 (assistant, user correction) pairs, n-1 being the attempts  *)
(* that failed before it; each transcript extends the one before it        *)
(* without reordering, changing or removing a turn; nothing is appended    *)
(* after the final failed attempt.                                         *)
(***************************************************************************)
C6_TranscriptShape ==
    \A r \in Reqs :
        /\ \A n \in 1..Len(sent[r]) :
            /\ HasShape(sent[r][n], n - 1)
            /\ n > 1 => IsPrefix(sent[r][n - 1], sent[r][n])
        /\ Len(sent[r]) >= 1 =>
            /\ IsPrefix(Last(sent[r]), messages[r])
            /\ HasShape(messages[r], IF pc[r] \in {"loop", "create"}
                                     THEN Len(errors[r]) ELSE Len(sent[r]) - 1)
            /\ Ended(r) => messages[r] = Last(sent[r])

C6_Witness ==
    \E r \in Reqs :
        /\ Ended(r) /\ ret[r].kind = "raise"
        /\ Len(sent[r]) = 3 /\ Len(Last(sent[r])) = 6
        /\ messages[r] = Last(sent[r])

(***************************************************************************)
(* C7. A provider error on attempt n consumes one attempt as a validation  *)
(* failure does: with n < max_retries the engine appends the correction    *)
(* pair carrying the provider error's text and goes on to attempt n+1;     *)
(* with n = max_retries the provider error is the terminal failure.        *)
(***************************************************************************)
C7_ProviderErrorRetried ==
    \A r \in Reqs : \A n \in 1..Len(replies[r]) :
        replies[r][n].kind = "error" =>
            IF n < call[r].max_retries
            THEN /\ ~(Ended(r) /\ Len(sent[r]) = n)
                 /\ Len(sent[r]) > n =>
                        /\ Len(sent[r][n + 1]) = Len(sent[r][n]) + 2
                        /\ Last(sent[r][n + 1]) = CorrectionTurn(ProviderError)
            ELSE /\ n = Len(sent[r])
                 /\ Ended(r) => ret[r] = Raised(ProviderError)

C7_Witness ==
    \E r \in Reqs :
        /\ Ended(r) /\ Len(replies[r]) = 3
        /\ replies[r][1].kind = "error" /\ replies[r][3].kind = "error"
        /\ Last(sent[r][2]) = CorrectionTurn(ProviderError)
        /\ ret[r] = Raised(ProviderError)

(***************************************************************************)
(* C8. When the API credential is absent, an extraction ends with the      *)
(* missing-credential error before any provider call (zero calls), the     *)
(* shared client stays uninitialised, and the failure is raised only when  *)
(* an extraction is attempted, so GET /health still answers.               *)
(***************************************************************************)
C8_MissingCredential ==
    ~api_key =>
        /\ client = "None"
        /\ ENABLED health_check
        /\ health \in {"none", "healthy"}
        /\ \A r \in Reqs :
            /\ Len(sent[r]) = 0
            /\ Ended(r) => ret[r] = Raised(MissingCredential)

\* C8 as amended: the missing-credential error is the one raised when the
\* schema resource was read; when it cannot be read the extraction has already
\* ended with the schema load error, still before any provider call
C8_MissingCredentialAfterLoad ==
    ~api_key =>
        /\ client = "None"
        /\ ENABLED health_check
        /\ health \in {"none", "healthy"}
        /\ \A r \in Reqs :
            /\ Len(sent[r]) = 0
            /\ Ended(r) =>
                ret[r] = Raised(IF schema_file THEN MissingCredential ELSE SchemaLoadError)

C8_Witness ==
    \E r \in Reqs :
        /\ ~api_key /\ schema_file
        /\ pc[r] = "done" /\ ret[r] = Raised(MissingCredential)
        /\ response[r].status = "error" /\ response[r].error = str(MissingCredential)
        /\ client = "None"
        /\ health = "healthy"

(***************************************************************************)
(* C9. An upload whose declared media type is not an image type is         *)
(* rejected with a client error before any storage or extraction: no       *)
(* image file, no result file, no retrievable result, no engine call.      *)
(***************************************************************************)
\* a declared media type that is not image/<subtype>
DeclaredNonImage(ct) ==
    ct # NoContentType /\ ~(Len(ct) = 3 /\ ct[1] = "image" /\ ct[2] = "/")

\* the uploads that were given an identifier
Accepted == {r \in Reqs : file_id[r] # 0}

C9_NonImageRejected ==
    /\ \A r \in Reqs :
        (call[r].kind = "upload" /\ pc[r] # "idle" /\ DeclaredNonImage(call[r].content_type))
            => /\ pc[r] = "done" /\ response[r].status = "http400"
               /\ file_id[r] = 0
               /\ ret[r] = Pending /\ Len(sent[r]) = 0
    \* every file on disk belongs to an upload that was given an identifier
    /\ DOMAIN image_files = {file_id[r] : r \in Accepted}
    /\ DOMAIN result_files \subseteq {file_id[r] : r \in Accepted}
    /\ \A id \in 1..(MaxRequests + 1) :
        get_result(id).status = "http200" => \E r \in Accepted : file_id[r] = id

C9_Witness ==
    \E r, q \in Reqs :
        /\ pc[r] = "done" /\ call[r].content_type = <<"text", "/", "plain">>
        /\ response[r].status = "http400"
        /\ pc[q] = "done" /\ response[q].status = "completed"
        /\ DOMAIN result_files = {file_id[q]}

(***************************************************************************)
(* C10. Whenever the engine returns a Document for an accepted upload,     *)
(* Documents with timestamp values included, upload_document writes the    *)
(* result file of that identifier and answers "completed" with the         *)
(* Document as data.                                                       *)
(***************************************************************************)
C10_SuccessPersisted ==
    \A r \in Reqs :
        (pc[r] = "done" /\ call[r].kind = "upload" /\ ret[r].kind = "Document")
            => /\ response[r].status = "completed"
               /\ response[r].data = ret[r].doc
               /\ file_id[r] \in DOMAIN result_files

(***************************************************************************)
(* C11. Whenever upload_document answers status "error" for an identifier, *)
(* no result file exists for that identifier.                              *)
(***************************************************************************)
C11_NoFileOnError ==
    \A r \in Reqs :
        (pc[r] = "done" /\ response[r].status = "error")
            => /\ response[r].id = file_id[r] /\ file_id[r] # 0
               /\ file_id[r] \notin DOMAIN result_files

\* an error after the engine returned a Document, next to a completed upload
C11_Witness ==
    \E r, q \in Reqs :
        /\ pc[r] = "done" /\ response[r].status = "error"
        /\ ret[r].kind = "Document"
        /\ file_id[r] \notin DOMAIN result_files
        /\ pc[q] = "done" /\ response[q].status = "completed"

(***************************************************************************)
(* C12. After an upload answered "completed" with identifier id,           *)
(* get_result(id) returns the persisted record of that id, and the data of *)
(* the record is identical to the data of the upload response.             *)
(***************************************************************************)
C12_ResultRoundTrip ==
    \A r \in Reqs :
        (pc[r] = "done" /\ response[r].status = "completed")
            => /\ get_result(response[r].id).status = "http200"
               /\ get_result(response[r].id).body.f["id"] = Str(ToString(response[r].id))
               /\ get_result(response[r].id).body.f["data"] = response[r].data
               /\ response[r].data.t = "obj"

\* the record is still the same after a later upload completed too
C12_Witness ==
    \E r, q \in Reqs :
        /\ r < q
        /\ pc[r] = "done" /\ response[r].status = "completed"
        /\ pc[q] = "done" /\ response[q].status = "completed"
        /\ got = get_result(response[r].id) /\ got.status = "http200"
        /\ got.body.f["data"] = response[r].data

(***************************************************************************)
(* C13. get_result(id) answers not-found, in every reachable state, for an *)
(* identifier no upload was given and for an identifier whose upload       *)
(* ended with status "error", whatever other uploads have completed.       *)
(***************************************************************************)
C13_NotFound ==
    \A id \in 1..(MaxRequests + 1) :
        (\/ \A r \in Reqs : file_id[r] # id
         \/ \E r \in Reqs : file_id[r] = id /\ response[r].status = "error")
            => get_result(id).status = "http404"

C13_Witness ==
    \E r, q \in Reqs :
        /\ pc[r] = "done" /\ response[r].status = "error" /\ file_id[r] # 0
        /\ pc[q] = "done" /\ response[q].status = "completed"
        /\ got = get_result(file_id[r]) /\ got.status = "http404"
        /\ get_result(MaxRequests + 1).status = "http404"

(***************************************************************************)
(* C14. Every error raised while the engine runs for an accepted upload    *)
(* (exhausted validation failures, provider error, missing credential,     *)
(* schema load failure) becomes a response with status "error" and the     *)
(* error's message; the caller sees neither an unhandled failure nor a     *)
(* retry in progress.                                                      *)
(***************************************************************************)
C14_ErrorsConverted ==
    \A r \in Reqs :
        /\ (pc[r] = "done" /\ file_id[r] # 0) =>
            /\ response[r].status \in {"completed", "error"}
            /\ ret[r].kind = "raise" =>
                /\ response[r].status = "error"
                /\ response[r].id = file_id[r]
                /\ response[r].error = str(ret[r].exc)
        \* no answer before the engine has ended
        /\ (Live(r) /\ call[r].kind = "upload") => response[r] = NoResponse

C14_Witness ==
    \E r \in Reqs :
        /\ pc[r] = "done" /\ file_id[r] # 0
        /\ ret[r] = Raised(ProviderError)
        /\ response[r].status = "error" /\ response[r].error = str(ProviderError)

(***************************************************************************)
(* C16. The extraction schema is read from its resource at most once per   *)
(* process: after the first successful load no later extraction reads it   *)
(* again.                                                                  *)
(***************************************************************************)
C16_SchemaReadOnce == schema_reads <= 1

(***************************************************************************)
(* C20. For every failed attempt n < max_retries the assistant turn        *)
(* appended to the transcript holds the raw payload received in attempt n  *)
(* itself: the payload that failed validation, and the empty string when   *)
(* attempt n ended in a provider error, also when an earlier attempt of    *)
(* the same extraction did return a payload.                               *)
(***************************************************************************)
\* the raw payload of a reply as a message content: "" when there was none
RawPayload(reply) == IF reply.kind = "content" THEN <<reply.text>> ELSE << >>

C20_AssistantTurnOfAttempt ==
    \A r \in Reqs : \A n \in 1..(Len(sent[r]) - 1) :
        LET t == sent[r][n + 1]
        IN  /\ t[Len(t) - 1].role = "assistant"
            /\ t[Len(t) - 1].content = RawPayload(replies[r][n])

(***************************************************************************)
(* The thread pool: upload_document runs extract_document_data through     *)
(* run_in_threadpool (main.py:36), so the extractions of several uploads   *)
(* interleave step by step.  Uploads are images here, the schema resource  *)
(* is in place, and each extraction has its own way of failing: a          *)
(* non-conforming payload for the odd ones, a provider error for the even. *)
(***************************************************************************)
OwnFailure(r) ==
    IF r % 2 = 1 THEN [kind |-> "content", text |-> "bad_missing"]
                 ELSE [kind |-> "error", text |-> ""]

ConcReplies(r) == {[kind |-> "content", text |-> "good"], OwnFailure(r)}

InitConc == Init /\ schema_file

ConcUpload == \E r \in Reqs : upload_document(r, <<"image", "/", "jpeg">>)
ConcEngineStep == \E r \in Reqs :
                    \/ LoadAndBuild(r)
                    \/ ClientCheck(r)
                    \/ ClientInit(r)
                    \/ LoopHead(r)
                    \/ \E reply \in ConcReplies(r) : Create(r, reply)
                    \/ Validate(r)
                    \/ Except(r)
ConcFinish == \E r \in Reqs : upload_finish(r)

NextConc == ConcUpload \/ ConcEngineStep \/ ConcFinish

SpecConc == InitConc /\ [][NextConc]_vars

(***************************************************************************)
(* C15. Under any interleaving of concurrent extractions in the thread     *)
(* pool the shared provider client is constructed at most once.            *)
(***************************************************************************)
C15_ClientBuiltOnce == client_inits <= 1

(***************************************************************************)
(* C17. Concurrent extractions are independent: under any interleaving,    *)
(* every transcript sent by an extraction holds only turns built by that   *)
(* extraction (its image, its payloads, its error texts), and its attempt  *)
(* count is decided by its own replies alone.                              *)
(***************************************************************************)
\* the payloads extraction r has received in its first n replies
OwnPayloads(r, n) ==
    {replies[r][j].text : j \in {i \in 1..n : replies[r][i].kind = "content"}}

C17_Independent ==
    \A r \in Reqs :
        /\ \A n \in 1..Len(sent[r]) :
            LET t == sent[r][n]
            IN  /\ Len(t) = 2 * n
                /\ t[1] = [role |-> "system", content |-> system_prompt]
                /\ t[2] = [role |-> "user",
                           content |-> user_text \o <<"data:image/jpeg;base64,",
                                                      b64encode(ImageBytes(r))>>]
                /\ \A i \in 1..(n - 1) :
                    /\ t[2 * i + 1].role = "assistant"
                    /\ \/ t[2 * i + 1].content = << >>
                       \/ \E x \in OwnPayloads(r, i) : t[2 * i + 1].content = <<x>>
                    /\ t[2 * i + 2] = [role |-> "user",
                                       content |-> fix_prefix \o str(errors[r][i])]
        /\ pc[r] \in {"loop", "create", "validate"} => attempt[r] = Len(errors[r])
        /\ Len(sent[r]) = Len(replies[r])
        /\ \A n \in 1..Len(errors[r]) : ~Conforming(replies[r][n])
        /\ Ended(r) =>
            \/ Len(replies[r]) = 0 /\ ret[r] = Raised(MissingCredential)
            \/ Len(errors[r]) = Len(replies[r]) - 1 /\ Conforming(Last(replies[r]))
                    /\ ret[r].kind = "Document"
            \/ Len(errors[r]) = Len(replies[r]) /\ Len(replies[r]) = call[r].max_retries
                    /\ ret[r] = Raised(Last(errors[r]))

\* two extractions in flight at once, each already on a retry of its own
C17_Witness ==
    \E r, q \in Reqs :
        /\ r # q
        /\ pc[r] = "create" /\ Len(sent[r]) = 2
        /\ pc[q] = "except" /\ Len(sent[q]) = 2
        /\ replies[r][1].kind = "content" /\ replies[q][1].kind = "error"
        /\ client_inits = 1

(***************************************************************************)
(* FieldDocument validation on its own (models.py:5-76): a payload is      *)
(* drawn from a family that varies the length of the two tanks lists       *)
(* (-1: the key is absent) and the record that carries an undeclared key,  *)
(* and the validation of FieldDocument is applied to it once.              *)
(***************************************************************************)
MaxTanks == 2

\* the record types of the Document that can carry the undeclared key
ExtraPlaces ==
    {"none", "top", "barge", "port", "arrival", "departure", "tank", "drafts",
     "timestamps", "summary_totals", "product_totals"}

\* the fields f, with the key "notes" (declared by no model) when asked
WithExtra(f, here) ==
    IF here
    THEN [k \in DOMAIN f \cup {"notes"} |-> IF k = "notes" THEN Str("n/a") ELSE f[k]]
    ELSE f

Without(f, keys) == [k \in DOMAIN f \ keys |-> f[k]]

SampleTanks(n, here) ==
    IF n < 1 THEN Arr(<< >>)
    ELSE Arr([i \in 1..n |-> IF i = 1 THEN Obj(WithExtra(TankRow.f, here)) ELSE TankRow])

SampleDrafts(here) ==
    Obj(WithExtra([fwd_port |-> Num(8), fwd_stbd |-> Num(8),
                   aft_port |-> Num(9), aft_stbd |-> Num(9)], here))

SampleTimestamps(here) ==
    Obj(WithExtra([arrival |-> Str("2024-05-01T08:00:00")], here))

SampleTotals(here) ==
    Obj([ULSD |-> Obj(WithExtra([gross_bbls |-> Num(1000)], here))])

\* an arrival or departure record with every optional part present; the
\* nested records of the arrival side carry the undeclared key
SampleRecord(n, side, at) ==
    LET inner == side = "arrival"
        full == [water_specific_gravity |-> Num(1),
                 drafts_ft |-> SampleDrafts(inner /\ at = "drafts"),
                 timestamps |-> SampleTimestamps(inner /\ at = "timestamps"),
                 tanks |-> SampleTanks(n, inner /\ at = "tank"),
                 summary_by_product |-> SampleTotals(inner /\ at = "summary_totals")]
    IN  Obj(WithExtra(Without(full, IF n < 0 THEN {"tanks"} ELSE {}), at = side))

SampleJson(na, nd, at) ==
    Obj(WithExtra([barge |-> Obj(WithExtra([name |-> Str("B1")], at = "barge")),
                   port |-> Obj(WithExtra([vessel_name |-> Str("V1")], at = "port")),
                   arrival |-> SampleRecord(na, "arrival", at),
                   departure |-> SampleRecord(nd, "departure", at),
                   products_loaded_discharged |-> SampleTotals(at = "product_totals")],
                  at = "top"))

\* a tank reading can carry the key only if the arrival has a tank
Samples ==
    {x \in {[arrival_tanks |-> na, departure_tanks |-> nd, extra_at |-> at,
             json |-> SampleJson(na, nd, at)] :
                na \in -1..MaxTanks, nd \in -1..MaxTanks, at \in ExtraPlaces} :
        x.extra_at = "tank" => x.arrival_tanks >= 1}

InitValidation ==
    /\ api_key = TRUE /\ schema_file = TRUE
    /\ InitService
    /\ sample \in Samples
    /\ verdict = NoVerdict

\* FieldDocument.model_validate applied to the parsed payload
validate_sample ==
    /\ ~verdict.seen
    /\ verdict' = [ok |-> ValidFieldDocument(sample.json),
                   doc |-> IF ValidFieldDocument(sample.json)
                           THEN BuildFieldDocument(sample.json) ELSE Null,
                   seen |-> TRUE]
    /\ UNCHANGED <<env, client, files, pc, call, file_id, locals, ret, history,
                   response, probes, counters, sample>>

NextValidation == validate_sample

SpecValidation == InitValidation /\ [][NextValidation]_vars

\* C18: a Document is produced only if the tanks lists of the arrival and of
\* the departure record are both present and non-empty.
C18_TanksNonEmpty ==
    (verdict.seen /\ verdict.ok)
        => /\ sample.arrival_tanks >= 1 /\ sample.departure_tanks >= 1
           /\ Len(verdict.doc.f["arrival"].f["tanks"].e) >= 1
           /\ Len(verdict.doc.f["departure"].f["tanks"].e) >= 1

\* C19: schema closure: a payload that carries a key not declared for its
\* record, in any of the record types of the Document, fails validation and
\* gives no Document; the same payload without that key, and with tanks,
\* validates.
C19_SchemaClosure ==
    verdict.seen =>
        /\ sample.extra_at # "none" => (~verdict.ok /\ verdict.doc = Null)
        /\ (sample.extra_at = "none" /\ sample.arrival_tanks >= 1
                /\ sample.departure_tanks >= 1) => verdict.ok

C19_Witness ==
    /\ verdict.seen /\ ~verdict.ok
    /\ sample.extra_at = "timestamps"
    /\ sample.arrival_tanks = 1 /\ sample.departure_tanks = 1
    /\ "notes" \in DOMAIN sample.json.f["arrival"].f["timestamps"].f

====
